---- MODULE Spec2Model ----
(***************************************************************************)
(* AI suggestion job pipeline of the ROPA module.                          *)
(*                                                                         *)
(*   submission   backend/app/modules/ropa/routers.py                      *)
(*   job store    backend/app/modules/ropa/services/suggestion_job.py      *)
(*   worker       backend/app/modules/ropa/tasks.py                        *)
(*   provider     backend/app/services/openai_service.py                   *)
(*   context      backend/app/modules/ropa/services/context_builder.py     *)
(*                                                                         *)
(* A nullable column holds <<>> (NULL) or <<v>>.  A Python string is a     *)
(* sequence of one-character strings, so that split and strip are          *)
(* computed and not assumed.                                               *)
(***************************************************************************)
EXTENDS Integers, Sequences, FiniteSets, Bags, TLC

VARIABLES
    jobs,       \* table ai_suggestion_jobs, in created_at order; the id is the index
    queue,      \* bag of task messages held by the broker
    running,    \* bag of task invocations that are waiting for the provider
    creating,   \* bag of submissions between the dedup check and the insert
    resp,       \* HTTP response of the submission step just taken
    hist,       \* per job: what its worker invocations did (history only)
    norm,       \* the normalizer taken alone: its input and what it returned
    ctx         \* the context builder taken alone: its input and what it returned

vars == <<jobs, queue, running, creating, resp, hist, norm, ctx>>

\* ------------------------------------------------------------------ bounds

MaxJobs == 2

MaxLen == 2

\* jobs of one field in the specification of racing submissions
MaxRacing == 3

\* deliveries that the broker repeats
MaxRedeliver == 1

\* copies of one message of another producer that the broker holds at a time
MaxForeign == 1

\* ------------------------------------------------------- program constants

max_retries == 3

MultiselectLimit == 10

\* ------------------------------------------------------------------ values

NULL == <<>>

Some(v) == <<v>>

IsNull(c) == c = <<>>

Val(c) == c[1]

Str(cs) == [kind |-> "str", v |-> cs]

NonStr(tok) == [kind |-> "other", v |-> <<tok>>]

PyNone == [kind |-> "none", v |-> <<>>]

IsStr(x) == x.kind = "str"

\* Python truth value of a JSON scalar
Truthy(x) ==
    CASE x.kind = "str"  -> x.v # <<>>
      [] x.kind = "none" -> FALSE
      [] OTHER           -> x.v # <<"0">>

List(items) == [isList |-> TRUE, items |-> items]

Scalar(x) == [isList |-> FALSE, items |-> <<x>>]

Repeat(x, n) == [i \in 1..n |-> x]

\* --------------------------------------------------------- str.split/strip

IsSpace(c) == c \in {" ", "\t", "\n"}

RECURSIVE LStrip(_)
LStrip(s) ==
    IF s # <<>> /\ IsSpace(Head(s)) THEN LStrip(Tail(s)) ELSE s

RECURSIVE RStrip(_)
RStrip(s) ==
    IF s # <<>> /\ IsSpace(s[Len(s)]) THEN RStrip(SubSeq(s, 1, Len(s) - 1)) ELSE s

Strip(s) == RStrip(LStrip(s))

\* item.split(','): the fragments between the commas, empty ones included
RECURSIVE SplitComma(_, _)
SplitComma(s, cur) ==
    IF s = <<>> THEN <<cur>>
    ELSE IF Head(s) = "," THEN <<cur>> \o SplitComma(Tail(s), <<>>)
    ELSE SplitComma(Tail(s), Append(cur, Head(s)))

HasComma(s) == \E i \in 1..Len(s) : s[i] = ","

\* [s.strip() for s in item.split(',') if s.strip()]
RECURSIVE StripNonEmpty(_)
StripNonEmpty(frags) ==
    IF frags = <<>> THEN <<>>
    ELSE IF Strip(Head(frags)) # <<>>
         THEN <<Str(Strip(Head(frags)))>> \o StripNonEmpty(Tail(frags))
         ELSE StripNonEmpty(Tail(frags))

split_items(item) == StripNonEmpty(SplitComma(item.v, <<>>))

\* ------------------------------------------------- response normalization

SingleValueTypes == {"text", "select", "textarea", "multiline", "enum"}

\* the single-value branch without the cut to the first element
NormalizeSingleKeepAll(sugg) ==
    IF ~sugg.isList
    THEN (IF Truthy(sugg.items[1]) THEN List(<<sugg.items[1]>>) ELSE List(<<Str(<<>>)>>))
    ELSE IF Len(sugg.items) = 0 THEN List(<<Str(<<>>)>>)
    ELSE sugg

\* the single-value branch that wraps every value that is not a list, the
\* falsy ones too
NormalizeSingleWrapAny(sugg) ==
    IF ~sugg.isList THEN List(<<sugg.items[1]>>)
    ELSE IF Len(sugg.items) = 0 THEN List(<<Str(<<>>)>>)
    ELSE IF Len(sugg.items) > 1 THEN List(<<sugg.items[1]>>)
    ELSE sugg

\* tasks.py: the single-value branch
NormalizeSingle(sugg) ==
    IF ~sugg.isList
    THEN (IF Truthy(sugg.items[1]) THEN List(<<sugg.items[1]>>) ELSE List(<<Str(<<>>)>>))
    ELSE IF Len(sugg.items) = 0 THEN List(<<Str(<<>>)>>)
    ELSE IF Len(sugg.items) > 1 THEN List(<<sugg.items[1]>>)
    ELSE sugg

\* the loop with the test on the number of fragments lost: every string that
\* has a comma is replaced by its fragments
RECURSIVE SplitCommaItemsAlways(_)
SplitCommaItemsAlways(items) ==
    IF items = <<>> THEN <<>>
    ELSE LET item == Head(items)
             rest == SplitCommaItemsAlways(Tail(items))
         IN  IF IsStr(item) /\ HasComma(item.v)
             THEN split_items(item) \o rest
             ELSE <<item>> \o rest

\* tasks.py: the loop that rebuilds processed_suggestions
RECURSIVE SplitCommaItems(_)
SplitCommaItems(items) ==
    IF items = <<>> THEN <<>>
    ELSE LET item == Head(items)
             rest == SplitCommaItems(Tail(items))
         IN  IF IsStr(item) /\ HasComma(item.v) /\ Len(split_items(item)) > 1
             THEN split_items(item) \o rest
             ELSE <<item>> \o rest

\* the multiselect branch with the cut to 10 and without the split
NormalizeMultiUnsplit(sugg) ==
    IF ~sugg.isList THEN sugg
    ELSE IF Len(sugg.items) > MultiselectLimit
         THEN List(SubSeq(sugg.items, 1, MultiselectLimit))
         ELSE sugg

\* tasks.py: the multiselect branch, the cut to 10 first and the split after it
NormalizeMulti(sugg) ==
    IF ~sugg.isList THEN sugg
    ELSE LET cut == IF Len(sugg.items) > MultiselectLimit
                    THEN SubSeq(sugg.items, 1, MultiselectLimit)
                    ELSE sugg.items
         IN  List(SplitCommaItems(cut))

\* the post-processing with the single-value branch as the default: every
\* type that is not multiselect is collapsed to one suggestion
NormalizeSingleByDefault(field_type, sugg) ==
    IF field_type = "multiselect" THEN NormalizeMulti(sugg) ELSE NormalizeSingle(sugg)

\* tasks.py: the post-processing block; a type of neither branch is left alone
Normalize(field_type, sugg) ==
    IF field_type \in SingleValueTypes THEN NormalizeSingle(sugg)
    ELSE IF field_type = "multiselect" THEN NormalizeMulti(sugg)
    ELSE sugg

\* ------------------------------------------------------- provider client

\* openai_service.py _parse_response, JSON path: the "suggestions" value made a list
ParseSuggestions(value) ==
    IF value.isList THEN value
    ELSE IF Truthy(value.items[1]) THEN List(<<value.items[1]>>) ELSE List(<<>>)

\* config.py OPENAI_MODEL, its default
OPENAI_MODEL == "gpt-4o-mini"

\* openai_service.py _calculate_cost: a positive amount for the models of the
\* price table, 0.0 for any other model
calculate_cost(model) == IF model \in {"gpt-4o-mini", "gpt-4o"} THEN "cost" ELSE "0.0"

\* openai_service.py suggest_field_value: the result dictionary of one call
ProviderResult(value) ==
    [general_statement |-> "statement",
     suggestions       |-> ParseSuggestions(value),
     model             |-> OPENAI_MODEL,
     tokens_used       |-> "tokens",
     cost_usd          |-> calculate_cost(OPENAI_MODEL)]

\* what the provider sent as message content: text that json.loads rejects or
\* text that is JSON and no object
Text(chars) == [kind |-> "text", text |-> chars]

JsonNotObject(chars) == [kind |-> "json", text |-> chars]

\* content.split("\n")
RECURSIVE SplitLines(_, _)
SplitLines(s, cur) ==
    IF s = <<>> THEN <<cur>>
    ELSE IF Head(s) = "\n" THEN <<cur>> \o SplitLines(Tail(s), <<>>)
    ELSE SplitLines(Tail(s), Append(cur, Head(s)))

StartsWith(s, prefix) == Len(s) >= Len(prefix) /\ SubSeq(s, 1, Len(prefix)) = prefix

IsDigit(c) == c \in {"0", "1", "2", "3", "4", "5", "6", "7", "8", "9"}

\* the places where ". " stands in the line
DotSpaceAt(line) == {i \in 1..(Len(line) - 1) : line[i] = "." /\ line[i + 1] = " "}

\* _parse_response, fallback: what one line adds to the suggestions
LineSuggestions(raw_line) ==
    LET line == Strip(raw_line)
    IN  IF StartsWith(line, <<"-", " ">>) \/ StartsWith(line, <<"*", " ">>)
        THEN (IF Strip(SubSeq(line, 3, Len(line))) # <<>>
              THEN <<Str(Strip(SubSeq(line, 3, Len(line))))>> ELSE <<>>)
        ELSE IF line # <<>> /\ IsDigit(line[1]) /\ DotSpaceAt(line) # {}
        THEN LET i == CHOOSE k \in DotSpaceAt(line) : \A l \in DotSpaceAt(line) : k <= l
                 suggestion == Strip(SubSeq(line, i + 2, Len(line)))
             IN  IF suggestion # <<>> THEN <<Str(suggestion)>> ELSE <<>>
        ELSE <<>>

RECURSIVE AllLineSuggestions(_)
AllLineSuggestions(lines) ==
    IF lines = <<>> THEN <<>>
    ELSE LineSuggestions(Head(lines)) \o AllLineSuggestions(Tail(lines))

\* openai_service.py _parse_response when json.loads raises or the value is no
\* dictionary: the stripped content is the statement, the bulleted and the
\* numbered lines are the suggestions, the whole content if there is none
parse_response_fallback(content, field_type) ==
    LET text == Strip(content.text)
        found == AllLineSuggestions(SplitLines(text, <<>>))
        suggestions ==
            IF field_type \in SingleValueTypes
            THEN (IF found # <<>> THEN <<found[1]>> ELSE <<Str(text)>>)
            ELSE found
    IN  [general_statement |-> Str(text),
         suggestions       |-> List(IF suggestions # <<>> THEN suggestions ELSE <<Str(text)>>)]

\* suggest_field_value on such a content: the result dictionary
ProviderResultOfText(content, field_type) ==
    LET result == parse_response_fallback(content, field_type)
    IN  [general_statement |-> result.general_statement,
         suggestions       |-> result.suggestions,
         model             |-> OPENAI_MODEL,
         tokens_used       |-> "tokens",
         cost_usd          |-> calculate_cost(OPENAI_MODEL)]

\* ------------------------------------------------------------- job store

JobIds == 1..MaxRacing

Statuses == {"pending", "processing", "completed", "failed"}

\* services/suggestion_job.py create_job: the inserted row
NewJob(p) ==
    [user_id            |-> p.user_id,
     tenant_id          |-> p.tenant_id,
     entity_type        |-> p.entity_type,
     entity_id          |-> p.entity_id,
     field_name         |-> p.field_name,
     field_type         |-> p.field_type,
     field_label        |-> p.field_label,
     request_data       |-> p.request_data,
     status             |-> "pending",
     error_message      |-> NULL,
     general_statement  |-> NULL,
     suggestions        |-> NULL,
     openai_model       |-> NULL,
     openai_tokens_used |-> NULL,
     openai_cost_usd    |-> NULL,
     completed_at       |-> NULL]

create_job(js, p) == Append(js, NewJob(p))

\* get_job: the id of the row, or 0 for None
get_job(js, job_id) == IF job_id \in 1..Len(js) THEN job_id ELSE 0

\* get_job_by_field: the newest matching row, or 0 for None
\* get_job_by_field with the status filter lost: the newest row of the field
get_job_by_field_any_status(js, entity_type, entity_id, field_name, status) ==
    LET match == {j \in 1..Len(js) :
                     /\ js[j].entity_type = entity_type
                     /\ js[j].entity_id = entity_id
                     /\ js[j].field_name = field_name}
    IN  IF match = {} THEN 0 ELSE CHOOSE j \in match : \A k \in match : k <= j

get_job_by_field(js, entity_type, entity_id, field_name, status) ==
    LET match == {j \in 1..Len(js) :
                     /\ js[j].entity_type = entity_type
                     /\ js[j].entity_id = entity_id
                     /\ js[j].field_name = field_name
                     /\ (status # "" => js[j].status = status)}
    IN  IF match = {} THEN 0 ELSE CHOOSE j \in match : \A k \in match : k <= j

\* update_status as a guard: a job that is not pending is left alone
update_status_guarded(js, job_id, status, error_message) ==
    IF get_job(js, job_id) = 0 \/ js[job_id].status # "pending" THEN js
    ELSE [js EXCEPT ![job_id] =
             [@ EXCEPT !.status = status,
                       !.error_message =
                           IF error_message # "" THEN Some(error_message) ELSE @]]

update_status(js, job_id, status, error_message) ==
    IF get_job(js, job_id) = 0 THEN js
    ELSE [js EXCEPT ![job_id] =
             [@ EXCEPT !.status = status,
                       !.error_message =
                           IF error_message # "" THEN Some(error_message) ELSE @]]

\* complete_job that filters on the field of the job instead of its id: every
\* job of the field is completed
complete_job_by_field(js, job_id, result) ==
    IF get_job(js, job_id) = 0 THEN js
    ELSE [j \in 1..Len(js) |->
             IF /\ js[j].entity_type = js[job_id].entity_type
                /\ js[j].entity_id = js[job_id].entity_id
                /\ js[j].field_name = js[job_id].field_name
             THEN [js[j] EXCEPT !.status = "completed",
                                !.general_statement = Some(result.general_statement),
                                !.suggestions = Some(result.suggestions),
                                !.openai_model = Some(result.model),
                                !.openai_tokens_used = Some(result.tokens_used),
                                !.openai_cost_usd = Some(result.cost_usd),
                                !.completed_at = Some("utcnow")]
             ELSE js[j]]

\* complete_job that leaves the cost column out
complete_job_without_cost(js, job_id, result) ==
    IF get_job(js, job_id) = 0 THEN js
    ELSE [js EXCEPT ![job_id] =
             [@ EXCEPT !.status = "completed",
                       !.general_statement = Some(result.general_statement),
                       !.suggestions = Some(result.suggestions),
                       !.openai_model = Some(result.model),
                       !.openai_tokens_used = Some(result.tokens_used),
                       !.completed_at = Some("utcnow")]]

complete_job(js, job_id, result) ==
    IF get_job(js, job_id) = 0 THEN js
    ELSE [js EXCEPT ![job_id] =
             [@ EXCEPT !.status = "completed",
                       !.general_statement = Some(result.general_statement),
                       !.suggestions = Some(result.suggestions),
                       !.openai_model = Some(result.model),
                       !.openai_tokens_used = Some(result.tokens_used),
                       !.openai_cost_usd = Some(result.cost_usd),
                       !.completed_at = Some("utcnow")]]

\* fail_job that stamps completed_at as complete_job does
fail_job_stamping(js, job_id, error_message) ==
    IF get_job(js, job_id) = 0 THEN js
    ELSE [js EXCEPT ![job_id] =
             [@ EXCEPT !.status = "failed",
                       !.error_message = Some(error_message),
                       !.completed_at = Some("utcnow")]]

\* fail_job with the filter on the id lost: every row is marked failed
fail_job_unfiltered(js, job_id, error_message) ==
    [j \in 1..Len(js) |->
        [js[j] EXCEPT !.status = "failed", !.error_message = Some(error_message)]]

\* fail_job that keeps the first message instead of overwriting it
fail_job_keep_first(js, job_id, error_message) ==
    IF get_job(js, job_id) = 0 THEN js
    ELSE [js EXCEPT ![job_id] =
             [@ EXCEPT !.status = "failed",
                       !.error_message = IF IsNull(@) THEN Some(error_message) ELSE @]]

fail_job(js, job_id, error_message) ==
    IF get_job(js, job_id) = 0 THEN js
    ELSE [js EXCEPT ![job_id] =
             [@ EXCEPT !.status = "failed",
                       !.error_message = Some(error_message)]]

\* ------------------------------------------------- entities and context

NotFoundError == "NotFoundError"

\* services/repository.py get_by_id: the row of this id and this tenant
RepositoryService_get_by_id(db, repository_id, tenant_id) ==
    IF /\ repository_id \in DOMAIN db.repositories
       /\ db.repositories[repository_id].tenant_id = tenant_id
    THEN repository_id
    ELSE NotFoundError

\* services/activity.py get_by_id: the row of this id whose repository is of this tenant
ActivityService_get_by_id(db, activity_id, tenant_id) ==
    IF /\ activity_id \in DOMAIN db.activities
       /\ db.repositories[db.activities[activity_id].data_repository_id].tenant_id = tenant_id
    THEN activity_id
    ELSE NotFoundError

\* services/data_element.py get_by_id: the row, verified through its activity
DataElementService_get_by_id(db, data_element_id, tenant_id) ==
    IF data_element_id \notin DOMAIN db.data_elements THEN NotFoundError
    ELSE IF ActivityService_get_by_id(
                db, db.data_elements[data_element_id].processing_activity_id,
                tenant_id) = NotFoundError
         THEN NotFoundError
         ELSE data_element_id

\* services/dpia.py get_by_id: the row, verified through its activity
DPIAService_get_by_id(db, dpia_id, tenant_id) ==
    IF dpia_id \notin DOMAIN db.dpias THEN NotFoundError
    ELSE IF ActivityService_get_by_id(
                db, db.dpias[dpia_id].processing_activity_id, tenant_id) = NotFoundError
         THEN NotFoundError
         ELSE dpia_id

\* services/risk.py get_by_id: the row, verified through its DPIA
RiskService_get_by_id(db, risk_id, tenant_id) ==
    IF risk_id \notin DOMAIN db.risks THEN NotFoundError
    ELSE IF DPIAService_get_by_id(db, db.risks[risk_id].dpia_id, tenant_id) = NotFoundError
         THEN NotFoundError
         ELSE risk_id

\* one entry of the context dictionary: its key and the "id" of the projected row
Entry(key, id) == [key |-> key, id |-> id]

\* what a builder ends with: the dictionary it returns, or NotFoundError raised
Returned(entries) == [raised |-> FALSE, entries |-> entries]

Raised == [raised |-> TRUE, entries |-> <<>>]

\* context_builder.py _repository_to_dict, _activity_to_dict, _dpia_to_dict
repository_to_dict(repository) == Entry("repository_context", repository)

activity_to_dict(activity) == Entry("activity_context", activity)

dpia_to_dict(dpia) == Entry("dpia_context", dpia)

\* context_builder.py _get_activity_context
get_activity_context(db, activity_id, tenant_id) ==
    LET activity == ActivityService_get_by_id(db, activity_id, tenant_id)
    IN  IF activity = NotFoundError THEN Raised
        ELSE LET repository == RepositoryService_get_by_id(
                                   db, db.activities[activity].data_repository_id, tenant_id)
             IN  IF repository = NotFoundError THEN Raised
                 ELSE Returned(<<repository_to_dict(repository)>>)

\* the lookups that end the three deeper builders: the activity, then its repository
activity_and_repository(db, activity_id, tenant_id) ==
    LET activity == ActivityService_get_by_id(db, activity_id, tenant_id)
    IN  IF activity = NotFoundError THEN Raised
        ELSE LET repository == RepositoryService_get_by_id(
                                   db, db.activities[activity].data_repository_id, tenant_id)
             IN  IF repository = NotFoundError THEN Raised
                 ELSE Returned(<<activity_to_dict(activity), repository_to_dict(repository)>>)

\* context_builder.py _get_data_element_context
get_data_element_context(db, data_element_id, tenant_id) ==
    LET data_element == DataElementService_get_by_id(db, data_element_id, tenant_id)
    IN  IF data_element = NotFoundError THEN Raised
        ELSE activity_and_repository(
                 db, db.data_elements[data_element].processing_activity_id, tenant_id)

\* context_builder.py _get_dpia_context
get_dpia_context(db, dpia_id, tenant_id) ==
    LET dpia == DPIAService_get_by_id(db, dpia_id, tenant_id)
    IN  IF dpia = NotFoundError THEN Raised
        ELSE activity_and_repository(db, db.dpias[dpia].processing_activity_id, tenant_id)

\* _get_risk_context with the DPIA entry left out of the dictionary
get_risk_context_without_dpia(db, risk_id, tenant_id) ==
    LET risk == RiskService_get_by_id(db, risk_id, tenant_id)
    IN  IF risk = NotFoundError THEN Raised
        ELSE LET dpia == DPIAService_get_by_id(db, db.risks[risk].dpia_id, tenant_id)
             IN  IF dpia = NotFoundError THEN Raised
                 ELSE activity_and_repository(
                          db, db.dpias[dpia].processing_activity_id, tenant_id)

\* context_builder.py _get_risk_context
get_risk_context(db, risk_id, tenant_id) ==
    LET risk == RiskService_get_by_id(db, risk_id, tenant_id)
    IN  IF risk = NotFoundError THEN Raised
        ELSE LET dpia == DPIAService_get_by_id(db, db.risks[risk].dpia_id, tenant_id)
             IN  IF dpia = NotFoundError THEN Raised
                 ELSE LET rest == activity_and_repository(
                                      db, db.dpias[dpia].processing_activity_id, tenant_id)
                      IN  IF rest.raised THEN Raised
                          ELSE Returned(<<dpia_to_dict(dpia)>> \o rest.entries)

\* services/tenant.py get_company_context: the "company" part of the tenant metadata
get_company_context(db, tenant_id) == db.company[tenant_id]

\* context_builder.py build_context: the dictionary in insertion order, or the error
build_context(db, entity_type, entity_id, tenant_id) ==
    LET context ==
            CASE entity_type = "repository"   -> Returned(<<>>)
              [] entity_type = "activity"     -> get_activity_context(db, entity_id, tenant_id)
              [] entity_type = "data_element" ->
                     get_data_element_context(db, entity_id, tenant_id)
              [] entity_type = "dpia"         -> get_dpia_context(db, entity_id, tenant_id)
              [] entity_type = "risk"         -> get_risk_context(db, entity_id, tenant_id)
        company_context == get_company_context(db, tenant_id)
    IN  IF context.raised THEN Raised
        ELSE IF ~IsNull(company_context)
             THEN Returned(Append(context.entries,
                                  Entry("company_context", Val(company_context))))
             ELSE context

\* the entity check that opens each of the five submission handlers
get_entity(db, entity_type, entity_id, tenant_id) ==
    CASE entity_type = "repository"   -> RepositoryService_get_by_id(db, entity_id, tenant_id)
      [] entity_type = "activity"     -> ActivityService_get_by_id(db, entity_id, tenant_id)
      [] entity_type = "data_element" -> DataElementService_get_by_id(db, entity_id, tenant_id)
      [] entity_type = "dpia"         -> DPIAService_get_by_id(db, entity_id, tenant_id)
      [] entity_type = "risk"         -> RiskService_get_by_id(db, entity_id, tenant_id)

\* ------------------------------------------------------------ the inputs

Users == {"u1", "u2"}

\* the submissions exercised: who asks, for which field of which entity
Payloads ==
    { [user_id |-> u, tenant_id |-> "t1", entity_type |-> f[1], entity_id |-> "id1",
       field_name |-> f[2], field_type |-> f[3], field_label |-> f[2],
       request_data |-> "form"] :
        u \in Users,
        f \in { <<"repository", "description", "text">>,
                <<"activity", "secondary_countries", "multiselect">> } }

\* the risk submissions: a risk of the tenant, a risk of another tenant, no risk
RiskPayloads ==
    { [user_id |-> "u1", tenant_id |-> "t1", entity_type |-> "risk", entity_id |-> i,
       field_name |-> "mitigation", field_type |-> "text", field_label |-> "mitigation",
       request_data |-> "form"] : i \in {"id1", "id2", "id9"} }

\* the entity tables the submissions are checked against: the chain
\* risk - DPIA - activity - repository once in tenant t1 and once in tenant t2
TheDb ==
    [repositories  |-> [i \in {"id1", "id2"} |->
                           [tenant_id |-> IF i = "id1" THEN "t1" ELSE "t2"]],
     activities    |-> [i \in {"id1", "id2"} |-> [data_repository_id |-> i]],
     data_elements |-> [i \in {"id1", "id2"} |-> [processing_activity_id |-> i]],
     dpias         |-> [i \in {"id1", "id2"} |-> [processing_activity_id |-> i]],
     risks         |-> [i \in {"id1", "id2"} |-> [dpia_id |-> i]],
     company       |-> [t \in {"t1", "t2"} |-> Some("company")]]

US_GB_DE == Str(<<"U", "S", ",", " ", "G", "B", ",", " ", "D", "E">>)

\* the "suggestions" values the provider answers with
ProviderValues ==
    { Scalar(Str(<<"a">>)),
      List(<<>>),
      List(<<US_GB_DE>>),
      List(<<Str(<<"a", ",", "b">>)>> \o Repeat(Str(<<"c">>), MultiselectLimit - 1)) }

\* the messages of the exceptions the provider call raises
ProviderErrors == {"timeout", "rate limit"}

NotConfigured == "OPENAI_API_KEY is not set in environment variables"

\* ------------------------------------------------------------- the state

Msg(job_id, retries) == [job_id |-> job_id, retries |-> retries]

One(x) == SetToBag({x})

NoResponse == [kind |-> "none"]

NewHist ==
    [invoked |-> 0, raised |-> 0, first_exc |-> NULL, last_exc |-> NULL, redelivered |-> 0]

Init ==
    /\ jobs = <<>>
    /\ queue = EmptyBag
    /\ running = EmptyBag
    /\ creating = EmptyBag
    /\ resp = NoResponse
    /\ hist = <<>>
    /\ norm = [stage |-> "unused"]
    /\ ctx = [stage |-> "unused"]

\* ------------------------------------------------------------ submission

SubmitResponse(p, job_id, status) ==
    [kind |-> "submit", code |-> 201, user_id |-> p.user_id,
     job_id |-> job_id, status |-> status]

\* the entity of the submission and its parent chain resolve for the tenant
Resolves(p) ==
    /\ get_entity(TheDb, p.entity_type, p.entity_id, p.tenant_id) # NotFoundError
    /\ ~build_context(TheDb, p.entity_type, p.entity_id, p.tenant_id).raised

\* SubmitNotFound that has inserted the job before the entity is looked up
SubmitNotFoundAfterInsert(p) ==
    /\ ~Resolves(p)
    /\ resp' = [kind |-> "error", code |-> 404, user_id |-> p.user_id]
    /\ jobs' = create_job(jobs, p)
    /\ hist' = Append(hist, NewHist)
    /\ UNCHANGED <<queue, running, creating, norm, ctx>>

\* routers.py create_suggestion_job, the entity check or build_context raising
\* NotFoundError: the request ends with 404
SubmitNotFound(p) ==
    /\ ~Resolves(p)
    /\ resp' = [kind |-> "error", code |-> 404, user_id |-> p.user_id]
    /\ UNCHANGED <<jobs, queue, running, creating, hist, norm, ctx>>

\* routers.py create_suggestion_job up to the dedup check: an existing pending
\* job is returned, otherwise the handler goes on to the insert
SubmitCheck(p) ==
    LET existing_job == get_job_by_field(jobs, p.entity_type, p.entity_id,
                                         p.field_name, "pending")
    IN  /\ Resolves(p)
        /\ IF existing_job # 0
           THEN /\ resp' = SubmitResponse(p, existing_job, jobs[existing_job].status)
                /\ UNCHANGED <<jobs, queue, running, creating, hist, norm, ctx>>
           ELSE /\ creating' = creating (+) One(p)
                /\ resp' = NoResponse
                /\ UNCHANGED <<jobs, queue, running, hist, norm, ctx>>

\* the request_data of the insert: the form and the context built for the entity
RequestData(p) ==
    [form_data |-> p.request_data,
     context   |-> build_context(TheDb, p.entity_type, p.entity_id, p.tenant_id).entries]

\* SubmitInsert that looks for a pending job once more and inserts none if it finds one
SubmitInsertRechecked(p) ==
    LET existing_job == get_job_by_field(jobs, p.entity_type, p.entity_id,
                                         p.field_name, "pending")
    IN  /\ BagIn(p, creating)
        /\ creating' = creating (-) One(p)
        /\ IF existing_job # 0
           THEN /\ resp' = SubmitResponse(p, existing_job, jobs[existing_job].status)
                /\ UNCHANGED <<jobs, queue, hist>>
           ELSE /\ jobs' = create_job(jobs, [p EXCEPT !.request_data = RequestData(p)])
                /\ queue' = queue (+) One(Msg(Len(jobs'), 0))
                /\ hist' = Append(hist, NewHist)
                /\ resp' = SubmitResponse(p, Len(jobs'), jobs'[Len(jobs')].status)
        /\ UNCHANGED <<running, norm, ctx>>

\* routers.py create_suggestion_job from create_job on: insert, enqueue, answer
SubmitInsert(p) ==
    /\ BagIn(p, creating)
    /\ creating' = creating (-) One(p)
    /\ jobs' = create_job(jobs, [p EXCEPT !.request_data = RequestData(p)])
    /\ queue' = queue (+) One(Msg(Len(jobs'), 0))
    /\ hist' = Append(hist, NewHist)
    /\ resp' = SubmitResponse(p, Len(jobs'), jobs'[Len(jobs')].status)
    /\ UNCHANGED <<running, norm, ctx>>

\* the same with process_suggestion_job.delay raising: the row is committed,
\* nothing is enqueued and the request ends in an internal error
SubmitInsertBrokerDown(p) ==
    /\ BagIn(p, creating)
    /\ creating' = creating (-) One(p)
    /\ jobs' = create_job(jobs, [p EXCEPT !.request_data = RequestData(p)])
    /\ hist' = Append(hist, NewHist)
    /\ resp' = [kind |-> "error", code |-> 500, user_id |-> p.user_id]
    /\ UNCHANGED <<queue, running, norm, ctx>>

\* routers.py get_suggestion_job, SuggestionJobStatus(...): the columns as they
\* are, the cost as float(cost) if it is truthy and None otherwise
PollView(job) ==
    [job EXCEPT !.openai_cost_usd =
        IF IsNull(@) \/ Val(@) = "0.0" THEN NULL ELSE @]

\* routers.py get_suggestion_job: what the polling read answers
PollResponse(user_id, entity_type, job_id) ==
    IF get_job(jobs, job_id) = 0 THEN [code |-> 404]
    ELSE IF \/ jobs[job_id].user_id # user_id
            \/ jobs[job_id].tenant_id # "t1"
            \/ jobs[job_id].entity_type # entity_type
            \/ jobs[job_id].entity_id # "id1"
         THEN [code |-> 403]
         ELSE [code |-> 200, job_id |-> job_id, view |-> PollView(jobs[job_id])]

\* the polling read writes nothing
Poll(user_id, entity_type, job_id) ==
    /\ PollResponse(user_id, entity_type, job_id).code \in {200, 403, 404}
    /\ UNCHANGED vars

\* ---------------------------------------------------------------- worker

ValueError == "ValueError"

\* a job id that is a well-formed UUID and the id of no row
NoRowId == 0

\* a job id that is not a UUID
MalformedId == -1

\* uuid.UUID(job_id): the id, or ValueError for a string that is not a UUID
UUID(job_id) == IF job_id = MalformedId THEN ValueError ELSE "uuid"

\* what a task invocation ended with, for the steps that record it
TaskEnded(job_id, exception, retried) ==
    [kind |-> "task", job_id |-> job_id, exception |-> exception, retried |-> retried]

\* ProcessStart that takes a job it does not find for an error to retry
ProcessStartRetryingMissing(m) ==
    /\ BagIn(m, queue)
    /\ UUID(m.job_id) # ValueError
    /\ IF get_job(jobs, m.job_id) = 0
       THEN /\ queue' = (queue (-) One(m)) (+) One(Msg(m.job_id, m.retries + 1))
            /\ resp' = TaskEnded(m.job_id, "Retry", TRUE)
            /\ UNCHANGED <<jobs, running, creating, hist, norm, ctx>>
       ELSE /\ queue' = queue (-) One(m)
            /\ resp' = NoResponse
            /\ jobs' = update_status(jobs, m.job_id, "processing", "")
            /\ running' = running (+) One(m)
            /\ hist' = [hist EXCEPT ![m.job_id].invoked = @ + 1]
            /\ UNCHANGED <<creating, norm, ctx>>

\* tasks.py process_suggestion_job up to the provider call: the job is read,
\* a job that is not found ends the task, and otherwise
\* update_status(job_uuid, "processing") is committed
ProcessStart(m) ==
    /\ BagIn(m, queue)
    /\ UUID(m.job_id) # ValueError
    /\ queue' = queue (-) One(m)
    /\ IF get_job(jobs, m.job_id) = 0
       THEN /\ resp' = TaskEnded(m.job_id, "none", FALSE)
            /\ UNCHANGED <<jobs, running, creating, hist, norm, ctx>>
       ELSE /\ resp' = NoResponse
            /\ jobs' = update_status(jobs, m.job_id, "processing", "")
            /\ running' = running (+) One(m)
            /\ hist' = [hist EXCEPT ![m.job_id].invoked = @ + 1]
            /\ UNCHANGED <<creating, norm, ctx>>

\* the provider answered: normalization and complete_job
ProviderReturns(m, value) ==
    /\ BagIn(m, running)
    /\ running' = running (-) One(m)
    /\ LET result == ProviderResult(value)
           normalized == [result EXCEPT !.suggestions =
                             Normalize(jobs[m.job_id].field_type, @)]
       IN  jobs' = complete_job(jobs, m.job_id, normalized)
    /\ resp' = NoResponse
    /\ UNCHANGED <<queue, creating, hist, norm, ctx>>

\* ProviderReturnsText that raises what json.loads raised, into the retry of
\* the other errors
ProviderReturnsTextRaising(m, content) ==
    /\ BagIn(m, running)
    /\ content.kind # "none"
    /\ running' = running (-) One(m)
    /\ jobs' = fail_job(jobs, m.job_id, "JSONDecodeError")
    /\ queue' = IF m.retries < max_retries
                THEN queue (+) One(Msg(m.job_id, m.retries + 1))
                ELSE queue
    /\ hist' = [hist EXCEPT ![m.job_id].raised = @ + 1,
                            ![m.job_id].first_exc =
                                IF IsNull(@) THEN Some("JSONDecodeError") ELSE @,
                            ![m.job_id].last_exc = Some("JSONDecodeError")]
    /\ resp' = NoResponse
    /\ UNCHANGED <<creating, norm, ctx>>

\* the provider answered with a content that is no JSON object: the fallback
\* of _parse_response, normalization and complete_job
ProviderReturnsText(m, content) ==
    /\ BagIn(m, running)
    /\ content.kind # "none"
    /\ running' = running (-) One(m)
    /\ LET result == ProviderResultOfText(content, jobs[m.job_id].field_type)
           normalized == [result EXCEPT !.suggestions =
                             Normalize(jobs[m.job_id].field_type, @)]
       IN  jobs' = complete_job(jobs, m.job_id, normalized)
    /\ resp' = NoResponse
    /\ UNCHANGED <<queue, creating, hist, norm, ctx>>

\* the retry test off by one: retries <= max_retries
ProviderRaisesOneMore(m, exc) ==
    /\ BagIn(m, running)
    /\ running' = running (-) One(m)
    /\ jobs' = fail_job(jobs, m.job_id, exc)
    /\ queue' = IF m.retries <= max_retries
                THEN queue (+) One(Msg(m.job_id, m.retries + 1))
                ELSE queue
    /\ hist' = [hist EXCEPT ![m.job_id].raised = @ + 1,
                            ![m.job_id].first_exc = IF IsNull(@) THEN Some(exc) ELSE @,
                            ![m.job_id].last_exc = Some(exc)]
    /\ resp' = NoResponse
    /\ UNCHANGED <<creating, norm, ctx>>

\* ProviderRaises that retries through a copy of the job: a new record and a
\* delivery of the new id
ProviderRaisesNewJob(m, exc) ==
    /\ BagIn(m, running)
    /\ running' = running (-) One(m)
    /\ jobs' = IF m.retries < max_retries
               THEN Append(fail_job(jobs, m.job_id, exc),
                           [jobs[m.job_id] EXCEPT !.status = "pending"])
               ELSE fail_job(jobs, m.job_id, exc)
    /\ queue' = IF m.retries < max_retries
                THEN queue (+) One(Msg(Len(jobs'), m.retries + 1))
                ELSE queue
    /\ hist' = LET h == [hist EXCEPT ![m.job_id].raised = @ + 1,
                                     ![m.job_id].first_exc =
                                         IF IsNull(@) THEN Some(exc) ELSE @,
                                     ![m.job_id].last_exc = Some(exc)]
               IN  IF m.retries < max_retries THEN Append(h, NewHist) ELSE h
    /\ resp' = NoResponse
    /\ UNCHANGED <<creating, norm, ctx>>

\* the provider call raised: fail_job, then self.retry or the final raise
ProviderRaises(m, exc) ==
    /\ BagIn(m, running)
    /\ running' = running (-) One(m)
    /\ jobs' = fail_job(jobs, m.job_id, exc)
    /\ queue' = IF m.retries < max_retries
                THEN queue (+) One(Msg(m.job_id, m.retries + 1))
                ELSE queue
    /\ hist' = [hist EXCEPT ![m.job_id].raised = @ + 1,
                            ![m.job_id].first_exc = IF IsNull(@) THEN Some(exc) ELSE @,
                            ![m.job_id].last_exc = Some(exc)]
    /\ resp' = NoResponse
    /\ UNCHANGED <<creating, norm, ctx>>

NoneHasNoStrip == "'NoneType' object has no attribute 'strip'"

\* the provider answered with no content: content.strip() raises
\* AttributeError, which _parse_response does not catch
ProviderReturnsNone(m) == ProviderRaises(m, NoneHasNoStrip)

\* OpenAIService() raised ValueError: fail_job and no retry
ProviderNotConfigured(m) ==
    /\ BagIn(m, running)
    /\ running' = running (-) One(m)
    /\ jobs' = fail_job(jobs, m.job_id, "Invalid request: " \o NotConfigured)
    /\ hist' = [hist EXCEPT ![m.job_id].first_exc =
                                IF IsNull(@) THEN Some(NotConfigured) ELSE @,
                            ![m.job_id].last_exc = Some(NotConfigured)]
    /\ resp' = NoResponse
    /\ UNCHANGED <<queue, creating, norm, ctx>>

\* the provider call raised and fail_job raised too (the store cannot be
\* written): the second error is logged only, then self.retry or the final raise
ProviderRaisesStoreDown(m, exc) ==
    /\ BagIn(m, running)
    /\ running' = running (-) One(m)
    /\ queue' = IF m.retries < max_retries
                THEN queue (+) One(Msg(m.job_id, m.retries + 1))
                ELSE queue
    /\ hist' = [hist EXCEPT ![m.job_id].raised = @ + 1,
                            ![m.job_id].first_exc = IF IsNull(@) THEN Some(exc) ELSE @,
                            ![m.job_id].last_exc = Some(exc)]
    /\ resp' = NoResponse
    /\ UNCHANGED <<jobs, creating, norm, ctx>>

\* at-least-once delivery: the broker delivers once more a message whose
\* invocation is still running
Redeliver(m) ==
    /\ BagIn(m, running)
    /\ hist[m.job_id].redelivered < MaxRedeliver
    /\ queue' = queue (+) One(m)
    /\ hist' = [hist EXCEPT ![m.job_id].redelivered = @ + 1]
    /\ resp' = NoResponse
    /\ UNCHANGED <<jobs, running, creating, norm, ctx>>

\* the shared broker holds a message that the submission handler did not
\* send: its job id is the id of no row, or no UUID at all
EnqueueForeign(m) ==
    /\ CopiesIn(m, queue) < MaxForeign
    /\ queue' = queue (+) One(m)
    /\ resp' = NoResponse
    /\ UNCHANGED <<jobs, running, creating, hist, norm, ctx>>

\* ProcessMalformed that reads job_uuid as None, calls no fail_job and
\* re-raises the ValueError into the retry of the other errors
ProcessMalformedRetrying(m) ==
    /\ BagIn(m, queue)
    /\ UUID(m.job_id) = ValueError
    /\ queue' = (queue (-) One(m)) (+) One(Msg(m.job_id, m.retries + 1))
    /\ resp' = TaskEnded(m.job_id, "ValueError", TRUE)
    /\ UNCHANGED <<jobs, running, creating, hist, norm, ctx>>

\* tasks.py process_suggestion_job on a job id that is not a UUID: UUID(job_id)
\* raises ValueError before job_uuid is bound, the handler's `if job_uuid:`
\* raises UnboundLocalError, which leaves the task; db.close() runs
ProcessMalformed(m) ==
    /\ BagIn(m, queue)
    /\ UUID(m.job_id) = ValueError
    /\ queue' = queue (-) One(m)
    /\ resp' = TaskEnded(m.job_id, "UnboundLocalError", FALSE)
    /\ UNCHANGED <<jobs, running, creating, hist, norm, ctx>>

Msgs == {Msg(j, r) : j \in JobIds, r \in 0..(max_retries + 1)}

ForeignMsgs == {Msg(NoRowId, 0), Msg(MalformedId, 0)}

EntityTypes == {"repository", "activity"}

\* the bound on the jobs explored: a submission goes on to the insert only
\* while fewer than n jobs are inserted or about to be
Submit(p, n) ==
    /\ SubmitCheck(p)
    /\ creating' # creating => Len(jobs) + BagCardinality(creating) < n

\* every writing step of the pipeline, for submissions P, provider answers V, provider errors E
Step(P, V, E) ==
    \/ \E p \in P : Submit(p, MaxJobs)
    \/ \E p \in P : SubmitInsert(p)
    \/ \E p \in P : SubmitInsertBrokerDown(p)
    \/ \E m \in Msgs : ProcessStart(m)
    \/ \E m \in Msgs, v \in V : ProviderReturns(m, v)
    \/ \E m \in Msgs, e \in E : ProviderRaises(m, e)
    \/ \E m \in Msgs : ProviderNotConfigured(m)

OneUser == {p \in Payloads : p.user_id = "u1"}

OneField == {p \in OneUser : p.entity_type = "repository"}

Next ==
    \/ Step(OneField, {List(<<US_GB_DE>>)}, ProviderErrors)
    \/ \E u \in Users, t \in EntityTypes, j \in JobIds : Poll(u, t, j)

\* retries, terminal states and polling: one field, one provider answer, every error
Spec == Init /\ [][Next]_vars

NextNormalizing == Step(OneUser, ProviderValues, {"timeout"})

\* normalization in the pipeline: every provider answer, one error
SpecNormalizing == Init /\ [][NextNormalizing]_vars

TwoUsers == {p \in Payloads : p.user_id = "u1" \/ p.entity_type = "repository"}

NextSubmitting == Step(TwoUsers, {List(<<US_GB_DE>>)}, {"timeout"})

\* deduplication: two users on one field and a second field, one provider
\* answer, one error
SpecSubmitting == Init /\ [][NextSubmitting]_vars

\* submissions that do not race: none runs its check while another one is
\* between its check and its insert
NextSequential ==
    /\ Step(OneField, {List(<<US_GB_DE>>)}, {"timeout"})
    /\ BagCardinality(creating') <= 1

SpecSequential == Init /\ [][NextSequential]_vars

OneFieldTwoUsers == {p \in Payloads : p.entity_type = "repository"}

\* submissions that race: two users on one field, up to MaxRacing jobs
NextRacing ==
    \/ \E p \in OneFieldTwoUsers : Submit(p, MaxRacing)
    \/ \E p \in OneFieldTwoUsers : SubmitInsert(p)
    \/ \E p \in OneFieldTwoUsers : SubmitInsertBrokerDown(p)
    \/ \E m \in Msgs : ProcessStart(m)
    \/ \E m \in Msgs : ProviderReturns(m, List(<<US_GB_DE>>))

SpecRacing == Init /\ [][NextRacing]_vars

NextRedelivering ==
    \/ Step(OneField, {List(<<US_GB_DE>>)}, {"timeout"})
    \/ \E m \in Msgs : Redeliver(m)

\* at-least-once delivery: the pipeline of one field with repeated deliveries
SpecRedelivering == Init /\ [][NextRedelivering]_vars

\* the pipeline when the enqueue succeeds and the provider answers
NextCompleting ==
    \/ \E p \in OneUser : Submit(p, MaxJobs)
    \/ \E p \in OneUser : SubmitInsert(p)
    \/ \E m \in Msgs : ProcessStart(m)
    \/ \E m \in Msgs, v \in ProviderValues : ProviderReturns(m, v)

\* the worker takes every queued delivery and every provider call returns
\* (the client's timeout bounds it)
SpecCompleting ==
    /\ Init
    /\ [][NextCompleting]_vars
    /\ \A m \in Msgs : WF_vars(ProcessStart(m))
    /\ \A m \in Msgs : WF_vars(\E v \in ProviderValues : ProviderReturns(m, v))

\* the pipeline next to another producer on the broker, with a provider that
\* answers or is not configured
NextForeign ==
    \/ \E p \in OneField : Submit(p, MaxJobs)
    \/ \E p \in OneField : SubmitInsert(p)
    \/ \E m \in Msgs \cup ForeignMsgs : ProcessStart(m)
    \/ \E m \in Msgs : ProviderReturns(m, List(<<US_GB_DE>>))
    \/ \E m \in Msgs : ProviderNotConfigured(m)
    \/ \E m \in ForeignMsgs : EnqueueForeign(m)
    \/ \E m \in ForeignMsgs : ProcessMalformed(m)

SpecForeign == Init /\ [][NextForeign]_vars

PlainText == <<"n", "o">>

\* the contents that are no JSON object: plain text, bulleted lines, a
\* numbered line, the empty string, a JSON list
TextContents ==
    { Text(PlainText),
      Text(<<"-", " ", "a", "\n", "-", " ", "b">>),
      Text(<<"1", ".", " ", "a">>),
      Text(<<>>),
      JsonNotObject(<<"[", "1", "]">>) }

OneMultiselect == {p \in OneUser : p.field_type = "multiselect"}

NextUnparseable ==
    \/ \E p \in OneMultiselect : Submit(p, MaxJobs)
    \/ \E p \in OneMultiselect : SubmitInsert(p)
    \/ \E m \in Msgs : ProcessStart(m)
    \/ \E m \in Msgs, c \in TextContents : ProviderReturnsText(m, c)
    \/ \E m \in Msgs : ProviderReturnsNone(m)

\* the pipeline with a provider whose answers are no JSON object, or nothing
SpecUnparseable == Init /\ [][NextUnparseable]_vars

\* submissions whose field_type is none of the types the worker knows
OtherTypePayloads ==
    { [user_id |-> "u1", tenant_id |-> "t1", entity_type |-> "repository",
       entity_id |-> "id1", field_name |-> f[1], field_type |-> f[2], field_label |-> f[1],
       request_data |-> "form"] :
        f \in { <<"is_cloud", "boolean">>, <<"regions", "multi-select">> } }

ElevenItems == List(Repeat(Str(<<"c">>), MultiselectLimit + 1))

NextUnnormalized ==
    \/ \E p \in OtherTypePayloads : Submit(p, MaxJobs)
    \/ \E p \in OtherTypePayloads : SubmitInsert(p)
    \/ \E m \in Msgs : ProcessStart(m)
    \/ \E m \in Msgs, v \in ProviderValues \cup {ElevenItems} : ProviderReturns(m, v)

\* the pipeline for fields of other types, with every provider answer
SpecUnnormalized == Init /\ [][NextUnnormalized]_vars

NextStoreFailing ==
    \/ Step(OneField, {List(<<US_GB_DE>>)}, ProviderErrors)
    \/ \E m \in Msgs, e \in ProviderErrors : ProviderRaisesStoreDown(m, e)

\* the pipeline of one field when the write that records an error can fail
SpecStoreFailing == Init /\ [][NextStoreFailing]_vars

NextRejecting ==
    \/ Step(RiskPayloads, {List(<<US_GB_DE>>)}, {"timeout"})
    \/ \E p \in RiskPayloads : SubmitNotFound(p)

\* submissions for risks that resolve and for risks that do not
SpecRejecting == Init /\ [][NextRejecting]_vars

\* ------------------------------------------------- the normalizer alone

FieldTypes == {"text", "multiselect", "boolean"}

Elements ==
    { Str(<<"a">>), Str(<<"a", ",", "b">>), Str(<<" ", "a", " ", ",", " ">>),
      Str(<<>>), NonStr("7") }

ShortLists == UNION {[1..n -> Elements] : n \in 0..MaxLen}

\* what the normalizer is applied to: short lists, lists past the limit, scalars
RawValues ==
    {List(l) : l \in ShortLists}
    \cup {Scalar(x) : x \in Elements \cup {PyNone}}
    \cup { List(<<US_GB_DE>>),
           List(Repeat(Str(<<"c">>), MultiselectLimit + 1)),
           List(<<Str(<<"a", ",", "b">>)>> \o Repeat(Str(<<"c">>), MultiselectLimit - 1)) }

InitNormalizer ==
    /\ jobs = <<>>
    /\ queue = EmptyBag
    /\ running = EmptyBag
    /\ creating = EmptyBag
    /\ resp = NoResponse
    /\ hist = <<>>
    /\ ctx = [stage |-> "unused"]
    /\ \E t \in FieldTypes, v \in RawValues :
           norm = [stage |-> "raw", field_type |-> t, raw |-> v]

\* the post-processing block of process_suggestion_job applied to the raw value
NormalizeOnce ==
    /\ norm.stage = "raw"
    /\ norm' = [stage |-> "once", field_type |-> norm.field_type, raw |-> norm.raw,
                once |-> Normalize(norm.field_type, norm.raw)]
    /\ UNCHANGED <<jobs, queue, running, creating, resp, hist, ctx>>

\* the same block applied to its own output
NormalizeAgain ==
    /\ norm.stage = "once"
    /\ norm' = [stage |-> "twice", field_type |-> norm.field_type, raw |-> norm.raw,
                once |-> norm.once, twice |-> Normalize(norm.field_type, norm.once)]
    /\ UNCHANGED <<jobs, queue, running, creating, resp, hist, ctx>>

NextNormalizer == NormalizeOnce \/ NormalizeAgain

SpecNormalizer == InitNormalizer /\ [][NextNormalizer]_vars

\* ------------------------------------------------------- the parent chain

\* the tables and the foreign keys of models/activity.py, data_element.py,
\* dpia.py and risk.py: where the parent of a row is
Table(db, entity_type) ==
    CASE entity_type = "repository"   -> db.repositories
      [] entity_type = "activity"     -> db.activities
      [] entity_type = "data_element" -> db.data_elements
      [] entity_type = "dpia"         -> db.dpias
      [] entity_type = "risk"         -> db.risks

ParentType(entity_type) ==
    CASE entity_type = "activity"     -> "repository"
      [] entity_type = "data_element" -> "activity"
      [] entity_type = "dpia"         -> "activity"
      [] entity_type = "risk"         -> "dpia"

ParentId(db, entity_type, entity_id) ==
    CASE entity_type = "activity"     -> db.activities[entity_id].data_repository_id
      [] entity_type = "data_element" -> db.data_elements[entity_id].processing_activity_id
      [] entity_type = "dpia"         -> db.dpias[entity_id].processing_activity_id
      [] entity_type = "risk"         -> db.risks[entity_id].dpia_id

\* the ancestors of a row, the nearest first, as context entries
RECURSIVE Ancestors(_, _, _)
Ancestors(db, entity_type, entity_id) ==
    IF entity_type = "repository" THEN <<>>
    ELSE <<Entry(ParentType(entity_type) \o "_context", ParentId(db, entity_type, entity_id))>>
         \o Ancestors(db, ParentType(entity_type), ParentId(db, entity_type, entity_id))

\* the tenant of the repository a row hangs under
RECURSIVE OwningTenant(_, _, _)
OwningTenant(db, entity_type, entity_id) ==
    IF entity_type = "repository" THEN db.repositories[entity_id].tenant_id
    ELSE OwningTenant(db, ParentType(entity_type), ParentId(db, entity_type, entity_id))

\* the row exists and it hangs under a repository of this tenant
InTenant(db, entity_type, entity_id, tenant_id) ==
    /\ entity_id \in DOMAIN Table(db, entity_type)
    /\ OwningTenant(db, entity_type, entity_id) = tenant_id

\* -------------------------------------------- the context builder alone

AllEntityTypes == {"repository", "activity", "data_element", "dpia", "risk"}

Tenants == {"t1", "t2"}

\* the entity tables the builder is run on: a repository per tenant, two
\* activities, a data element, a DPIA and a risk, hanging in every possible way
Databases ==
    { [repositories  |-> [i \in {"p1", "p2"} |->
                             [tenant_id |-> IF i = "p1" THEN "t1" ELSE "t2"]],
       activities    |-> [i \in {"a1", "a2"} |-> [data_repository_id |-> a[i]]],
       data_elements |-> [i \in {"e1"} |-> [processing_activity_id |-> e]],
       dpias         |-> [i \in {"d1"} |-> [processing_activity_id |-> d]],
       risks         |-> [i \in {"r1"} |-> [dpia_id |-> "d1"]],
       company       |-> [t \in Tenants |-> c]] :
        a \in [{"a1", "a2"} -> {"p1", "p2"}], e \in {"a1", "a2"}, d \in {"a1", "a2"},
        c \in {NULL, Some("company")} }

\* the ids asked for: the rows of the table and an id that no row has
EntityIds(db, entity_type) == DOMAIN Table(db, entity_type) \cup {"zz"}

InitContext ==
    /\ jobs = <<>>
    /\ queue = EmptyBag
    /\ running = EmptyBag
    /\ creating = EmptyBag
    /\ resp = NoResponse
    /\ hist = <<>>
    /\ norm = [stage |-> "unused"]
    /\ \E db \in Databases, t \in AllEntityTypes, tenant_id \in Tenants :
          \E i \in EntityIds(db, t) :
              ctx = [stage |-> "asked", db |-> db, entity_type |-> t, entity_id |-> i,
                     tenant_id |-> tenant_id]

\* build_context run on what was asked
BuildContext ==
    /\ ctx.stage = "asked"
    /\ ctx' = [stage |-> "built", db |-> ctx.db, entity_type |-> ctx.entity_type,
               entity_id |-> ctx.entity_id, tenant_id |-> ctx.tenant_id,
               result |-> build_context(ctx.db, ctx.entity_type, ctx.entity_id,
                                        ctx.tenant_id)]
    /\ UNCHANGED <<jobs, queue, running, creating, resp, hist, norm>>

NextContext == BuildContext

SpecContext == InitContext /\ [][NextContext]_vars

\* ---------------------------------------------------- retries and states

Terminal == {"completed", "failed"}

Existing == 1..Len(jobs)

\* a delivery of job j is queued or one of its invocations is running
Delivering(j) == \E m \in Msgs : m.job_id = j /\ (BagIn(m, queue) \/ BagIn(m, running))

\* this step took a delivery of job j from the queue or ended one of its invocations
WorkerStepOn(j) ==
    \E m \in Msgs :
        /\ m.job_id = j
        /\ \/ CopiesIn(m, queue') < CopiesIn(m, queue)
           \/ CopiesIn(m, running') < CopiesIn(m, running)

Invocations(j) == hist[j].invoked

RunningOf(j) ==
    LET ms == {m \in Msgs : m.job_id = j /\ BagIn(m, running)}
    IN  IF ms = {} THEN 0 ELSE CopiesIn(CHOOSE m \in ms : TRUE, running)

\* every attempt of job j that has ended, ended with the provider call raising
ThrewEveryTime(j) == hist[j].raised = Invocations(j) - RunningOf(j)

\* job j was delivered and nothing of it is queued or running any more
Settled(j) == Invocations(j) > 0 /\ ~Delivering(j)

\* C1 (as stated): once a job is completed or failed, no step changes its status.
C1_TerminalNeverChanges ==
    [][\A j \in Existing :
          jobs[j].status \in Terminal => jobs'[j].status = jobs[j].status]_vars

\* C1 (amended): the status of a completed or failed job is changed by nothing
\* but a worker step on a delivery of that same job (the retry that follows a
\* failure sets it to processing); submission and polling never change it, and
\* a terminal job with no delivery queued or running keeps its status.
C1_TerminalChangedOnlyByOwnDelivery ==
    [][\A j \in Existing :
          /\ (jobs[j].status \in Terminal /\ jobs'[j].status # jobs[j].status)
                => WorkerStepOn(j)
          /\ (jobs[j].status \in Terminal /\ ~Delivering(j))
                => jobs'[j].status = jobs[j].status]_vars

\* a retry has set a failed job to processing while another job rests completed
C1_Witness ==
    \E j, k \in Existing :
        /\ jobs[j].status = "processing" /\ hist[j].raised > 0
        /\ jobs[k].status = "completed" /\ ~Delivering(k)

C3_ResultFieldsFollowStatus ==
    \A j \in Existing :
        /\ ~IsNull(jobs[j].suggestions) => jobs[j].status = "completed"
        /\ ~IsNull(jobs[j].error_message) => jobs[j].status = "failed"

\* C4 (as stated): a job whose provider call raises on every attempt is invoked
\* exactly 3 times and never again.
C4_ThreeInvocations ==
    \A j \in Existing :
        ThrewEveryTime(j) =>
            /\ Invocations(j) <= 3
            /\ Settled(j) => Invocations(j) = 3

\* C4 (amended): a job whose provider call raises on every attempt is invoked
\* exactly max_retries + 1 = 4 times, the first delivery and 3 retries, and
\* never again.
C4_OnePlusMaxRetriesInvocations ==
    \A j \in Existing :
        ThrewEveryTime(j) =>
            /\ Invocations(j) <= max_retries + 1
            /\ Settled(j) => Invocations(j) = max_retries + 1

\* a job has been given up after four raising attempts
C4_Witness ==
    \E j \in Existing :
        ThrewEveryTime(j) /\ Settled(j) /\ Invocations(j) = 4 /\ hist[j].raised = 4

\* the last allowed attempt of job j has failed
Exhausted(j) == hist[j].raised = max_retries + 1

StoredItems(j) == Val(jobs[j].suggestions).items

\* C6: a completed job of a single-value field type stores a list of exactly
\* one suggestion, whatever the provider answered.
C6_SingleValueStoresOne ==
    \A j \in Existing :
        (jobs[j].status = "completed" /\ jobs[j].field_type \in SingleValueTypes)
            => /\ ~IsNull(jobs[j].suggestions)
               /\ Val(jobs[j].suggestions).isList
               /\ Len(StoredItems(j)) = 1

\* a text job completed from the ten-element answer, and one from the empty answer
C6_Witness ==
    \E j, k \in Existing :
        /\ jobs[j].status = "completed" /\ jobs[j].field_type = "text"
        /\ StoredItems(j) = <<Str(<<"a", ",", "b">>)>>
        /\ jobs[k].status = "completed" /\ jobs[k].field_type = "text"
        /\ StoredItems(k) = <<Str(<<>>)>>

\* C7 (as stated): a completed multiselect job stores between 0 and 10
\* suggestions.
C7_MultiselectStoresAtMostTen ==
    \A j \in Existing :
        (jobs[j].status = "completed" /\ jobs[j].field_type = "multiselect")
            => /\ Val(jobs[j].suggestions).isList
               /\ Len(StoredItems(j)) <= 10

\* C8 (as stated): normalizing twice gives what normalizing once gives.
C8_NormalizeIdempotent ==
    norm.stage = "twice" => norm.twice = norm.once

\* ---------------------------------------------------------- deduplication

ForField(job, p) ==
    /\ job.entity_type = p.entity_type
    /\ job.entity_id = p.entity_id
    /\ job.field_name = p.field_name

SameField(j, p) == ForField(jobs[j], p)

\* C9: a submission for a field that has a pending job answers with the id of a
\* pending job of that field (the newest one) and status pending, inserts no
\* job and enqueues nothing.
C9_PendingJobIsReturned ==
    [][\A p \in Payloads :
          (SubmitCheck(p) /\ \E j \in Existing : SameField(j, p) /\ jobs[j].status = "pending")
             => /\ resp'.kind = "submit"
                /\ resp'.job_id \in Existing
                /\ SameField(resp'.job_id, p)
                /\ jobs[resp'.job_id].status = "pending"
                /\ \A k \in Existing :
                       SameField(k, p) /\ jobs[k].status = "pending" => k <= resp'.job_id
                /\ resp'.status = "pending"
                /\ jobs' = jobs
                /\ queue' = queue
                /\ creating' = creating]_vars

\* a user was answered with the pending job that another user had created
C9_Witness ==
    /\ resp.kind = "submit"
    /\ jobs[resp.job_id].user_id # resp.user_id
    /\ jobs[resp.job_id].status = "pending"
    /\ Len(jobs) = 1

\* every earlier job of the field of p is failed, and there is one
OnlyFailedFor(p) ==
    /\ \E j \in Existing : SameField(j, p)
    /\ \A j \in Existing : SameField(j, p) => jobs[j].status = "failed"

\* C10: when the only earlier jobs of a field are failed, a submission for it is
\* not answered from them but goes on to the insert; the insert adds one job
\* with a new id and status pending, answers with that id, and enqueues exactly
\* one delivery of it.
C10_FailedJobIsNotReused ==
    [][\A p \in Payloads :
          /\ (SubmitCheck(p) /\ OnlyFailedFor(p))
                => /\ CopiesIn(p, creating') = CopiesIn(p, creating) + 1
                   /\ jobs' = jobs
                   /\ queue' = queue
          /\ (SubmitInsert(p) /\ resp'.kind = "submit")
                => /\ Len(jobs') = Len(jobs) + 1
                   /\ SubSeq(jobs', 1, Len(jobs)) = jobs
                   /\ resp'.job_id = Len(jobs')
                   /\ resp'.job_id \notin Existing
                   /\ resp'.status = "pending"
                   /\ jobs'[resp'.job_id].status = "pending"
                   /\ ForField(jobs'[resp'.job_id], p)
                   /\ BagCardinality(queue') = BagCardinality(queue) + 1
                   /\ CopiesIn(Msg(resp'.job_id, 0), queue') = 1]_vars

\* a field has a failed job and the pending job of a later submission, enqueued
C10_Witness ==
    \E j, k \in Existing :
        /\ j < k
        /\ jobs[j].entity_type = jobs[k].entity_type
        /\ jobs[j].field_name = jobs[k].field_name
        /\ jobs[j].status = "failed"
        /\ jobs[k].status = "pending"
        /\ resp.kind = "submit" /\ resp.job_id = k
        /\ BagIn(Msg(k, 0), queue)

\* ------------------------------------------------------ fan-out and races

Unfinished(j) == jobs[j].status \notin Terminal

SameFieldJobs(j, k) ==
    /\ jobs[j].entity_type = jobs[k].entity_type
    /\ jobs[j].entity_id = jobs[k].entity_id
    /\ jobs[j].field_name = jobs[k].field_name

\* C11 (as stated): when submissions do not race, a field never has two jobs
\* that are both unfinished (pending or processing), so never two provider
\* calls outstanding.
C11_OneUnfinishedJobPerField ==
    \A j, k \in Existing :
        (SameFieldJobs(j, k) /\ Unfinished(j) /\ Unfinished(k)) => j = k

\* the pending jobs of the field of p
PendingFor(js, p) == {j \in 1..Len(js) : ForField(js[j], p) /\ js[j].status = "pending"}

\* C12 (as stated): however submissions interleave, a field never has more
\* than two pending jobs.
C12_AtMostTwoPending ==
    \A p \in Payloads : Cardinality(PendingFor(jobs, p)) <= 2

\* C12 (amended): the check-then-create bounds nothing: a submission goes on to
\* the insert exactly when its check finds no pending job of the field, and its
\* insert then adds one pending job of the field whatever has been inserted in
\* between, so that n interleaved submissions leave n pending jobs.
C12_EveryRacingSubmissionInserts ==
    [][\A p \in Payloads :
          /\ SubmitCheck(p) =>
                (creating' # creating <=> PendingFor(jobs, p) = {})
          /\ SubmitInsert(p) =>
                Cardinality(PendingFor(jobs', p)) = Cardinality(PendingFor(jobs, p)) + 1]_vars

\* three submissions that interleaved have left three pending jobs of one field
C12_Witness ==
    \E p \in Payloads : Cardinality(PendingFor(jobs, p)) = 3

\* ------------------------------------------------------ repeated delivery

RECURSIVE SumCopies(_, _)
SumCopies(bag, ms) ==
    IF ms = {} THEN 0
    ELSE LET m == CHOOSE x \in ms : TRUE
         IN  CopiesIn(m, bag) + SumCopies(bag, ms \ {m})

\* the worker invocations of job j that are between update_status and their end
RunningInvocations(j) == SumCopies(running, {m \in Msgs : m.job_id = j})

\* C13 (as stated): no two worker invocations run the pipeline of one job at
\* the same time, also when the broker delivers a job id more than once.
C13_OneInvocationAtATime ==
    \A j \in Existing : RunningInvocations(j) <= 1

\* ------------------------------------------------------------- end to end

US_GB_DE_split == <<Str(<<"U", "S">>), Str(<<"G", "B">>), Str(<<"D", "E">>)>>

\* C14: the step in which the provider call of a job returns leaves the job
\* completed with suggestions equal to the normalizer's output on the parsed
\* provider suggestions, for a multiselect job and the answer ["US, GB, DE"]
\* with ["US", "GB", "DE"]; and when the enqueue succeeds and the provider
\* answers, every job that has a delivery is eventually completed.
C14_SuccessfulJobCompletes ==
    /\ [][\A m \in Msgs, v \in ProviderValues :
            ProviderReturns(m, v) =>
                /\ jobs'[m.job_id].status = "completed"
                /\ jobs'[m.job_id].suggestions =
                       Some(Normalize(jobs[m.job_id].field_type, ParseSuggestions(v)))
                /\ (jobs[m.job_id].field_type = "multiselect" /\ v = List(<<US_GB_DE>>))
                       => jobs'[m.job_id].suggestions = Some(List(US_GB_DE_split))]_vars
    /\ \A j \in JobIds :
           (j \in Existing /\ Delivering(j))
               ~> (j \in Existing /\ jobs[j].status = "completed")

\* the secondary_countries job is completed with ["US", "GB", "DE"]
C14_Witness ==
    \E j \in Existing :
        /\ jobs[j].field_name = "secondary_countries"
        /\ jobs[j].field_type = "multiselect"
        /\ jobs[j].status = "completed"
        /\ StoredItems(j) = US_GB_DE_split
        /\ ~Delivering(j)

\* --------------------------------------------------------- error capture

\* this step ended an attempt of job j with an error raised
AttemptRaised(j) == hist'[j].raised = hist[j].raised + 1

\* C15 (as stated): when an attempt on a job raises, the job is failed with
\* the message of that attempt's error at the moment the retry is scheduled or
\* the task gives up.
C15_RaisedErrorIsRecorded ==
    [][\A j \in Existing :
          AttemptRaised(j) =>
              /\ jobs'[j].status = "failed"
              /\ jobs'[j].error_message = hist'[j].last_exc]_vars

\* --------------------------------------------------- rejected submissions

Unresolved(p) == ~InTenant(TheDb, p.entity_type, p.entity_id, p.tenant_id)

\* C16: a submission whose entity does not exist, or hangs under a repository
\* of another tenant, is answered 404 in the request itself: it inserts no job,
\* enqueues nothing and never reaches the dedup check or the insert; every job
\* ever inserted is for an entity that resolves.
C16_UnresolvedIsRejected ==
    [][/\ \A p \in RiskPayloads :
            SubmitNotFound(p) =>
                /\ resp'.kind = "error" /\ resp'.code = 404
                /\ jobs' = jobs /\ queue' = queue /\ creating' = creating
       /\ \A p \in RiskPayloads :
            Unresolved(p) =>
                /\ ENABLED SubmitNotFound(p)
                /\ ~SubmitCheck(p) /\ ~SubmitInsert(p) /\ ~SubmitInsertBrokerDown(p)
       /\ Len(jobs') > Len(jobs) =>
            InTenant(TheDb, jobs'[Len(jobs')].entity_type, jobs'[Len(jobs')].entity_id,
                     jobs'[Len(jobs')].tenant_id)]_vars

\* a risk of another tenant was rejected while the job of a risk that resolves exists
C16_Witness ==
    /\ resp.kind = "error" /\ resp.code = 404
    /\ \E j \in Existing : jobs[j].entity_type = "risk" /\ jobs[j].entity_id = "id1"
    /\ \A j \in Existing : jobs[j].entity_id = "id1"

\* ------------------------------------------------------ submission errors

\* C17 (as stated): when a submission has ended with an error, no job is
\* pending without a delivery of it queued or running.
C17_NoPendingJobWithoutDelivery ==
    resp.kind = "error" =>
        \A j \in Existing : jobs[j].status = "pending" => Delivering(j)

\* ------------------------------------------------------------- timestamps

\* C18 (as stated): completed_at is null exactly while the job is pending or
\* processing, and non-null once it is completed or failed.
C18_CompletedAtFollowsStatus ==
    \A j \in Existing :
        IsNull(jobs[j].completed_at) <=> jobs[j].status \notin Terminal

\* C18 (amended): completed_at is stamped by the completion and by nothing
\* else: it is null in a pending job, non-null in a completed job, and
\* non-null exactly when the suggestions are; a job that fails is not stamped,
\* so a failed job that was never completed has a null completed_at.
C18_CompletedAtStampedByCompletionOnly ==
    \A j \in Existing :
        /\ jobs[j].status = "pending" => IsNull(jobs[j].completed_at)
        /\ jobs[j].status = "completed" => ~IsNull(jobs[j].completed_at)
        /\ IsNull(jobs[j].completed_at) <=> IsNull(jobs[j].suggestions)
        /\ (jobs[j].status = "failed" /\ IsNull(jobs[j].suggestions))
              => IsNull(jobs[j].completed_at)

\* a job has been given up failed with completed_at null; another is completed
C18_Witness ==
    \E j, k \in Existing :
        /\ Exhausted(j) /\ jobs[j].status = "failed" /\ ~Delivering(j)
        /\ IsNull(jobs[j].completed_at)
        /\ jobs[k].status = "completed" /\ ~IsNull(jobs[k].completed_at)

\* ---------------------------------------------------------- context chain

IsAncestorEntry(entry) == entry.key # "company_context"

\* the keys of the ancestors of each entity type, the nearest first
ChainKeys(entity_type) ==
    CASE entity_type = "repository"   -> <<>>
      [] entity_type = "activity"     -> <<"repository_context">>
      [] entity_type = "data_element" -> <<"activity_context", "repository_context">>
      [] entity_type = "dpia"         -> <<"activity_context", "repository_context">>
      [] entity_type = "risk"         ->
             <<"dpia_context", "activity_context", "repository_context">>

\* C19: the context built for an entity of the tenant holds, besides the
\* company entry, exactly the ancestors of the fixed chain of its type in
\* nesting order (none for a repository, three for a risk), each one the row
\* that its child's foreign key points to.
C19_ContextIsTheParentChain ==
    (ctx.stage = "built"
        /\ InTenant(ctx.db, ctx.entity_type, ctx.entity_id, ctx.tenant_id))
    => LET ancestors == SelectSeq(ctx.result.entries, IsAncestorEntry)
       IN  /\ ~ctx.result.raised
           /\ [i \in 1..Len(ancestors) |-> ancestors[i].key] = ChainKeys(ctx.entity_type)
           /\ ancestors = Ancestors(ctx.db, ctx.entity_type, ctx.entity_id)
           /\ Len(ctx.result.entries) - Len(ancestors) =
                  (IF IsNull(ctx.db.company[ctx.tenant_id]) THEN 0 ELSE 1)

\* the context of a risk was built: its DPIA, the activity and the repository
C19_Witness ==
    /\ ctx.stage = "built"
    /\ ctx.entity_type = "risk"
    /\ ~ctx.result.raised
    /\ Len(SelectSeq(ctx.result.entries, IsAncestorEntry)) = 3
    /\ ctx.result.entries[1] = Entry("dpia_context", "d1")
    /\ ctx.result.entries[2] = Entry("activity_context", "a2")
    /\ ctx.result.entries[3] = Entry("repository_context", "p1")

\* ------------------------------------------------------------ comma split

\* the k-th smallest element of a set of numbers
Nth(S, k) == CHOOSE b \in S : Cardinality({x \in S : x < b}) = k - 1

\* the places that bound the comma-free stretches of s
Cuts(s) == {0, Len(s) + 1} \cup {i \in 1..Len(s) : s[i] = ","}

\* s without the white space at its ends
Trimmed(s) ==
    LET inked == {i \in 1..Len(s) : ~IsSpace(s[i])}
    IN  IF inked = {} THEN <<>>
        ELSE SubSeq(s, CHOOSE i \in inked : \A k \in inked : i <= k,
                       CHOOSE i \in inked : \A k \in inked : k <= i)

NotEmpty(s) == s # <<>>

\* the non-empty trimmed fragments of s between its commas, in order
Fragments(s) ==
    LET stretches == [k \in 1..(Cardinality(Cuts(s)) - 1) |->
                         Trimmed(SubSeq(s, Nth(Cuts(s), k) + 1, Nth(Cuts(s), k + 1) - 1))]
        kept == SelectSeq(stretches, NotEmpty)
    IN  [k \in 1..Len(kept) |-> Str(kept[k])]

\* what one element becomes: its fragments if it is a string with a comma and
\* more than one fragment, itself otherwise
Pieces(item) ==
    IF IsStr(item) /\ Cardinality(Cuts(item.v)) > 2 /\ Len(Fragments(item.v)) > 1
    THEN Fragments(item.v)
    ELSE <<item>>

RECURSIVE PiecesInOrder(_)
PiecesInOrder(items) ==
    IF items = <<>> THEN <<>> ELSE Pieces(Head(items)) \o PiecesInOrder(Tail(items))

\* the elements that the limit of C7 keeps
Kept(items) ==
    IF Len(items) > MultiselectLimit THEN SubSeq(items, 1, MultiselectLimit) ELSE items

\* C20: for a multiselect field the normalized list is the elements of the raw
\* list (as far as the limit of ten keeps them), in order, where each string
\* that has a comma and more than one non-empty trimmed fragment is replaced
\* by those fragments and every other element stands unchanged; ["US, GB, DE"]
\* becomes ["US", "GB", "DE"] and a list of one comma-free string is unchanged.
C20_CommaStringsAreSplitInPlace ==
    (norm.stage # "raw" /\ norm.stage # "unused"
        /\ norm.field_type = "multiselect" /\ norm.raw.isList)
    => /\ norm.once = List(PiecesInOrder(Kept(norm.raw.items)))
       /\ norm.raw = List(<<US_GB_DE>>) => norm.once = List(US_GB_DE_split)
       /\ norm.raw = List(<<Str(<<"a">>)>>) => norm.once = norm.raw

\* a comma string was split in place next to a comma string with one fragment,
\* which was kept as it was
C20_Witness ==
    /\ norm.stage = "once"
    /\ norm.field_type = "multiselect"
    /\ norm.raw = List(<<Str(<<"a", ",", "b">>), Str(<<" ", "a", " ", ",", " ">>)>>)
    /\ norm.once = List(<<Str(<<"a">>), Str(<<"b">>), Str(<<" ", "a", " ", ",", " ">>)>>)

\* ------------------------------------------------- single-value collapse

\* the normalizer has run on a raw value of a single-value field type
SingleNormalized ==
    norm.stage \in {"once", "twice"} /\ norm.field_type \in SingleValueTypes

\* what the lists become: the first element alone, [""] for the empty list
CollapsesLists ==
    /\ (norm.raw.isList /\ Len(norm.raw.items) > 1)
          => norm.once = List(<<norm.raw.items[1]>>)
    /\ (norm.raw.isList /\ Len(norm.raw.items) = 0) => norm.once = List(<<Str(<<>>)>>)
    /\ (norm.raw.isList /\ Len(norm.raw.items) = 1) => norm.once = norm.raw

C22_ValueErrorEndsWithoutRetry ==
    [][/\ \A m \in Msgs :
            ProviderNotConfigured(m) =>
                /\ jobs'[m.job_id].status = "failed"
                /\ jobs'[m.job_id].error_message = Some("Invalid request: " \o NotConfigured)
                /\ \A k \in Existing : k # m.job_id => jobs'[k] = jobs[k]
                /\ queue' = queue
                /\ ~BagIn(m, running')
       /\ \A m \in ForeignMsgs :
            ProcessMalformed(m) =>
                /\ jobs' = jobs
                /\ running' = running
                /\ queue' = queue (-) One(m)
                /\ resp'.kind = "task" /\ ~resp'.retried]_vars

\* a delivery with a malformed id has ended while a job rests failed on the
\* ValueError of the provider client, with nothing queued or running
C22_Witness ==
    /\ resp.kind = "task" /\ resp.job_id = MalformedId /\ ~resp.retried
    /\ queue = EmptyBag /\ running = EmptyBag
    /\ \E j \in Existing :
           /\ jobs[j].status = "failed"
           /\ jobs[j].error_message = Some("Invalid request: " \o NotConfigured)

\* C23: a delivery whose job id has no job record is dropped: the provider is
\* not called (no invocation starts), no job record changes and no retry is
\* scheduled.
C23_MissingJobIsDropped ==
    [][\A m \in Msgs \cup ForeignMsgs :
          (ProcessStart(m) /\ get_job(jobs, m.job_id) = 0)
             => /\ jobs' = jobs
                /\ running' = running
                /\ hist' = hist
                /\ queue' = queue (-) One(m)
                /\ resp'.kind = "task" /\ ~resp'.retried]_vars

\* the delivery of an id that no row has was dropped next to a pending job,
\* whose own delivery is still queued
C23_Witness ==
    /\ resp.kind = "task" /\ resp.job_id = NoRowId /\ resp.exception = "none"
    /\ \E j \in Existing : jobs[j].status = "pending" /\ BagIn(Msg(j, 0), queue)
    /\ running = EmptyBag
    /\ BagCardinality(queue) = 1

\* ------------------------------------------------- unparseable payloads

\* C24 (as stated): an attempt whose provider payload is unparseable or empty
\* ends as an attempt with an error does: an error is raised to the retry
\* policy and the job is not completed from that payload.
C24_UnparseableIsAnError ==
    [][\A m \in Msgs, c \in TextContents :
          ProviderReturnsText(m, c) =>
              /\ AttemptRaised(m.job_id)
              /\ jobs'[m.job_id].status # "completed"]_vars

\* C24 (amended): a payload that is not a JSON object, the empty string
\* included, raises nothing: the client falls back to reading it as text, and
\* the job is completed with the payload as general statement and with its
\* bulleted or numbered lines, or else the whole payload, as suggestions; no
\* error is recorded and no retry is scheduled.  Only a missing content (None)
\* is surfaced as an error: the job is failed and the retry policy applies.
C24_UnparseableIsReadAsText ==
    [][/\ \A m \in Msgs, c \in TextContents :
            ProviderReturnsText(m, c) =>
                /\ jobs'[m.job_id].status = "completed"
                /\ jobs'[m.job_id].general_statement = Some(Str(c.text))
                /\ Val(jobs'[m.job_id].suggestions).items # <<>>
                /\ (\A i \in 1..Len(c.text) : c.text[i] # "\n")
                      => \/ Val(jobs'[m.job_id].suggestions) = List(<<Str(c.text)>>)
                         \/ /\ Val(jobs'[m.job_id].suggestions) = List(<<Str(<<"a">>)>>)
                            /\ c.text = <<"1", ".", " ", "a">>
                /\ hist' = hist
                /\ queue' = queue
       /\ \A m \in Msgs :
            ProviderReturnsNone(m) =>
                /\ AttemptRaised(m.job_id)
                /\ jobs'[m.job_id].status = "failed"
                /\ jobs'[m.job_id].error_message = Some(NoneHasNoStrip)
                /\ (m.retries < max_retries)
                      <=> BagIn(Msg(m.job_id, m.retries + 1), queue')]_vars

\* a job is completed from plain text and another from the empty payload,
\* neither with an error recorded
C24_Witness ==
    \E j, k \in Existing :
        /\ jobs[j].status = "completed"
        /\ jobs[j].suggestions = Some(List(<<Str(PlainText)>>))
        /\ jobs[j].general_statement = Some(Str(PlainText))
        /\ hist[j].raised = 0
        /\ jobs[k].status = "completed"
        /\ jobs[k].suggestions = Some(List(<<Str(<<>>)>>))
        /\ hist[k].raised = 0

\* ------------------------------------------------- who writes the job table

\* the deliveries that the broker has repeated so far
RECURSIVE Redelivered(_)
Redelivered(h) == IF h = <<>> THEN 0 ELSE Head(h).redelivered + Redelivered(Tail(h))

\* the jobs that have a delivery queued or running
InFlight == {j \in Existing : Delivering(j)}

\* every step that reads or writes the job table: submissions of one field
\* that do not race, attempts that return or raise, retries, one repeated
\* delivery and polls, with at most two jobs in flight at a time
NextWriters ==
    \/ \E p \in OneField :
           Submit(p, MaxJobs) /\ BagCardinality(creating') <= 1 /\ Cardinality(InFlight) <= 1
    \/ \E p \in OneField : SubmitInsert(p)
    \/ \E m \in Msgs : ProcessStart(m)
    \/ \E m \in Msgs : ProviderReturns(m, List(<<US_GB_DE>>))
    \/ \E m \in Msgs : ProviderRaises(m, "timeout")
    \/ \E m \in Msgs : Redeliver(m) /\ Redelivered(hist) = 0
    \/ \E j \in JobIds : Poll("u1", "repository", j)

SpecWriters == Init /\ [][NextWriters]_vars

\* the deliveries that this step has put on the queue
Enqueued == {x \in Msgs : CopiesIn(x, queue') > CopiesIn(x, queue)}

\* C25: the job table changes its set of records only by the insert of a
\* submission, which adds one record: an attempt that starts, returns or
\* raises, a repeated delivery and a poll leave the set of records as it is,
\* no record ever goes away, and the retry that an attempt schedules is a
\* delivery of the attempt's own job id.
C25_OnlySubmissionInserts ==
    [][/\ Len(jobs') # Len(jobs) =>
            /\ Len(jobs') = Len(jobs) + 1
            /\ \E p \in OneField : SubmitInsert(p)
       /\ \A j \in Existing : j \in 1..Len(jobs') /\ ForField(jobs'[j], jobs[j])
       /\ \A m \in Msgs :
            (\/ ProcessStart(m)
             \/ ProviderReturns(m, List(<<US_GB_DE>>))
             \/ ProviderRaises(m, "timeout")
             \/ Redeliver(m))
               => Len(jobs') = Len(jobs)
       /\ \A m \in Msgs :
            ProviderRaises(m, "timeout") =>
                /\ Enqueued \subseteq {Msg(m.job_id, m.retries + 1)}
                /\ (m.retries < max_retries) => Enqueued # {}]_vars

\* a job has been attempted three times, after two errors and a repeated
\* delivery, and it is still the only record
C25_Witness ==
    /\ Len(jobs) = 1
    /\ hist[1].invoked >= 3
    /\ hist[1].raised >= 2
    /\ hist[1].redelivered = 1
    /\ \E m \in Msgs : m.job_id = 1 /\ m.retries = 2 /\ BagIn(m, queue)

\* the columns that create_job fills and no later write names
CreationFields(job) ==
    [user_id      |-> job.user_id,
     tenant_id    |-> job.tenant_id,
     entity_type  |-> job.entity_type,
     entity_id    |-> job.entity_id,
     field_name   |-> job.field_name,
     field_type   |-> job.field_type,
     field_label  |-> job.field_label,
     request_data |-> job.request_data]

\* this step is a step of a worker invocation on the delivery m
WorkerStep(m) ==
    \/ ProcessStart(m)
    \/ ProviderReturns(m, List(<<US_GB_DE>>))
    \/ ProviderRaises(m, "timeout")

\* C26: no step changes the user id, tenant id, entity type, entity id, field
\* name, type and label or the input snapshot of a job that exists, so that
\* only status, result, error and timestamp columns are ever written; and a
\* step of a worker invocation for a job leaves the record of every other job
\* as it is.
C26_WorkerWritesOwnResultFieldsOnly ==
    [][/\ \A j \in Existing : CreationFields(jobs'[j]) = CreationFields(jobs[j])
       /\ \A m \in Msgs :
            WorkerStep(m) =>
                \A k \in Existing : k # m.job_id => jobs'[k] = jobs[k]]_vars

\* a job was completed while an earlier job of the same field, failed once, is
\* being retried; both still carry the user and the snapshot of their creation
C26_Witness ==
    \E j, k \in Existing :
        /\ j < k
        /\ jobs[k].status = "completed"
        /\ jobs[j].status = "processing" /\ hist[j].raised >= 1
        /\ ~IsNull(jobs[j].error_message) /\ IsNull(jobs[j].suggestions)
        /\ \A i \in {j, k} :
               /\ jobs[i].user_id = "u1"
               /\ jobs[i].request_data.form_data = "form"

\* ---------------------------------------------------------------- liveness

\* the attempt on the delivery m ends: the provider call returns, or it raises
\* and the error is recorded, or it raises and the record cannot be written
AttemptEnds(m) ==
    \/ ProviderReturns(m, List(<<US_GB_DE>>))
    \/ ProviderRaises(m, "timeout")
    \/ ProviderRaisesStoreDown(m, "timeout")

NextSettling ==
    \/ \E p \in OneField : Submit(p, MaxJobs)
    \/ \E p \in OneField : SubmitInsert(p)
    \/ \E m \in Msgs : ProcessStart(m)
    \/ \E m \in Msgs : AttemptEnds(m)

\* the enqueue succeeds, the broker delivers every message it holds and every
\* invocation runs to its end
SpecSettling ==
    /\ Init
    /\ [][NextSettling]_vars
    /\ \A m \in Msgs : WF_vars(ProcessStart(m))
    /\ \A m \in Msgs : WF_vars(AttemptEnds(m))

\* C27 (as stated): when the enqueue succeeds, every delivery is made and no
\* worker crashes, every job that a submission has created is eventually
\* completed or failed, and from some point on it stays completed or stays
\* failed.
C27_EveryJobSettles ==
    \A j \in JobIds :
        (j \in Existing) ~>
            ([](j \in Existing /\ jobs[j].status = "completed")
                \/ [](j \in Existing /\ jobs[j].status = "failed"))

\* ------------------------------------------------- polling what was returned

\* C28 (as stated): the job whose id a submission has just returned to a user
\* belongs to that user and to the tenant of the request, so that the user's
\* poll of it is answered 200 and not 403, also when the id is that of a
\* pending job the dedup check has found.
C28_ReturnedJobCanBePolled ==
    resp.kind = "submit" =>
        /\ jobs[resp.job_id].user_id = resp.user_id
        /\ jobs[resp.job_id].tenant_id = "t1"
        /\ PollResponse(resp.user_id, jobs[resp.job_id].entity_type, resp.job_id).code = 200

\* ------------------------------------------------- whole terminal records

\* a record that says completed has every result column, and one that says
\* failed has its message
Whole(job) ==
    /\ job.status = "completed" =>
          /\ ~IsNull(job.suggestions)
          /\ ~IsNull(job.openai_model)
          /\ ~IsNull(job.openai_tokens_used)
          /\ ~IsNull(job.openai_cost_usd)
          /\ ~IsNull(job.completed_at)
    /\ job.status = "failed" => ~IsNull(job.error_message)

\* C29: in every reachable state a job that is completed has suggestions,
\* model, token count, cost and completion time, and a job that is failed has
\* an error message; the owner's poll of the job is answered with the columns
\* of that record as they are stored (the cost shown as null only when the
\* stored cost is zero), never with a terminal status next to columns that
\* are not written yet.
C29_TerminalRecordIsWhole ==
    \A j \in Existing :
        /\ Whole(jobs[j])
        /\ LET answer == PollResponse(jobs[j].user_id, jobs[j].entity_type, j)
           IN  /\ answer.code = 200
               /\ [answer.view EXCEPT !.openai_cost_usd = jobs[j].openai_cost_usd] = jobs[j]
               /\ answer.view.openai_cost_usd # jobs[j].openai_cost_usd
                     => jobs[j].openai_cost_usd = Some("0.0")

\* after a repeated delivery one invocation has completed the job and the
\* other has failed it: failed with its message, the result columns kept; and
\* another job rests completed
C29_Witness ==
    \E j, k \in Existing :
        /\ jobs[j].status = "failed" /\ ~IsNull(jobs[j].error_message)
        /\ ~IsNull(jobs[j].suggestions)
        /\ hist[j].redelivered = 1
        /\ jobs[k].status = "completed" /\ ~Delivering(k)
        /\ PollResponse("u1", "repository", k).view.openai_cost_usd = Some("cost")

\* ------------------------------------------------------ other field types

KnownTypes == SingleValueTypes \cup {"multiselect"}

\* C30: a submission is accepted whatever string its field_type is: the job is
\* inserted with that field_type and answered 201; and when the field_type is
\* none of text, select, textarea, multiline, enum, multiselect, the job is
\* completed with the suggestions as the provider client parsed them: not
\* collapsed, not split, not cut to ten.
C30_OtherTypesAreStoredAsParsed ==
    [][/\ \A p \in OtherTypePayloads :
            SubmitInsert(p) =>
                /\ resp'.kind = "submit" /\ resp'.code = 201
                /\ jobs'[resp'.job_id].field_type = p.field_type
                /\ p.field_type \notin KnownTypes
       /\ \A m \in Msgs, v \in ProviderValues \cup {ElevenItems} :
            (ProviderReturns(m, v) /\ jobs[m.job_id].field_type \notin KnownTypes)
               => /\ jobs'[m.job_id].status = "completed"
                  /\ jobs'[m.job_id].suggestions = Some(ParseSuggestions(v))
                  /\ v.isList => jobs'[m.job_id].suggestions = Some(v)]_vars

\* a multi-select job (with the hyphen) is completed with eleven suggestions
\* and a boolean job with the unsplit "US, GB, DE"
C30_Witness ==
    \E j, k \in Existing :
        /\ jobs[j].field_type = "multi-select" /\ jobs[j].status = "completed"
        /\ Len(StoredItems(j)) = MultiselectLimit + 1
        /\ jobs[k].field_type = "boolean" /\ jobs[k].status = "completed"
        /\ StoredItems(k) = <<US_GB_DE>>

====
